---------------------------- MODULE Spec2Model ----------------------------
(***************************************************************************)
(* fzf-filter: the query loop of src/src/main.rs (run_loop), its reader    *)
(* thread, the mpsc channel between them, the field extractors and the     *)
(* selection of the lines to print; and the start of the process: main,    *)
(* Args::parse and run, up to the capture of the command's output.         *)
(*                                                                         *)
(* Text is a sequence of byte values (97 is "a", 98 is "b", 120 is "x",     *)
(* 49, 50, 51 and 55 are the digits "1", "2", "3" and "7"), so that Rust's *)
(* byte-wise ordering of &str is the lexicographic order of the sequences. *)
(* A char is its Unicode scalar value; in text it is its UTF-8 bytes.      *)
(* An Option is a sequence of length 0 (None) or 1 (Some).                 *)
(***************************************************************************)
EXTENDS Integers, Sequences, FiniteSets, TLC

\* ------------------------------------------------------------------ bounds

\* Lines the reader thread reads from stdin before the stream ends.
MaxInput == 3
\* Lines of the captured command output in the single-query specification.
MaxCorpus == 3
\* Characters of the corpus line in the field-extraction specification.
MaxLine == 4

\* --------------------------------------------------------------- constants

\* '\n', stripped by trim_end_matches (main.rs:95).
NL == 10
\* ' ', the separator of split_once (main.rs:95).
SPACE == 32
\* '\t', the default field delimiter (main.rs:170).
TAB == 9

None == << >>
Some(x) == << x >>

\* ------------------------------------------------------------ str helpers

\* str::trim_end_matches(c): every trailing c is removed.
RECURSIVE trim_end_matches(_, _)
trim_end_matches(s, c) ==
    IF s # << >> /\ s[Len(s)] = c
    THEN trim_end_matches(SubSeq(s, 1, Len(s) - 1), c)
    ELSE s

\* str::find(c): the first position of c in s, 0 when there is none.
RECURSIVE find_from(_, _, _)
find_from(s, c, i) ==
    IF i > Len(s) THEN 0
    ELSE IF s[i] = c THEN i
    ELSE find_from(s, c, i + 1)

\* char::encode_utf8: the bytes of a char in text.
encode_utf8(c) ==
    IF c < 128 THEN << c >>
    ELSE IF c < 2048 THEN << 192 + (c \div 64), 128 + (c % 64) >>
    ELSE IF c < 65536
         THEN << 224 + (c \div 4096), 128 + ((c \div 64) % 64), 128 + (c % 64) >>
    ELSE << 240 + (c \div 262144), 128 + ((c \div 4096) % 64),
            128 + ((c \div 64) % 64), 128 + (c % 64) >>

\* The char a text consists of, None when the text is not the UTF-8 encoding
\* of exactly one char (empty, several chars, or not UTF-8).
decode_one_char(s) ==
    LET cont(k) == s[k] \in 128..191
        c2 == (s[1] - 192) * 64 + (s[2] - 128)
        c3 == (s[1] - 224) * 4096 + (s[2] - 128) * 64 + (s[3] - 128)
        c4 == (s[1] - 240) * 262144 + (s[2] - 128) * 4096
              + (s[3] - 128) * 64 + (s[4] - 128)
    IN  IF Len(s) = 1 /\ s[1] < 128 THEN Some(s[1])
        ELSE IF Len(s) = 2 /\ s[1] \in 194..223 /\ cont(2) THEN Some(c2)
        ELSE IF Len(s) = 3 /\ s[1] \in 224..239 /\ cont(2) /\ cont(3)
                /\ c3 >= 2048 /\ c3 \notin 55296..57343 THEN Some(c3)
        ELSE IF Len(s) = 4 /\ s[1] \in 240..244 /\ cont(2) /\ cont(3) /\ cont(4)
                /\ c4 >= 65536 /\ c4 <= 1114111 THEN Some(c4)
        ELSE None

\* str::find(char) from place i: the first place at or after i where the
\* bytes of the char start in s, 0 when there is none.
find_char(s, c, i) ==
    LET pat  == encode_utf8(c)
        hits == { k \in i..(Len(s) - Len(pat) + 1) : SubSeq(s, k, k + Len(pat) - 1) = pat }
    IN  IF hits = {} THEN 0 ELSE CHOOSE k \in hits : \A m \in hits : k <= m

\* str::split_once(c): None, or Some of the text before and after the first c.
split_once(s, c) ==
    LET i == find_from(s, c, 1)
    IN  IF i = 0 THEN None
        ELSE Some(<< SubSeq(s, 1, i - 1), SubSeq(s, i + 1, Len(s)) >>)

\* str::split(d) for a char d: every segment between delimiters; "" gives one
\* empty segment.
RECURSIVE split(_, _)
split(s, d) ==
    LET i == find_char(s, d, 1)
    IN  IF i = 0 THEN << s >>
        ELSE << SubSeq(s, 1, i - 1) >>
             \o split(SubSeq(s, i + Len(encode_utf8(d)), Len(s)), d)

\* Faulty variant of splitn: the count is not looked at, every delimiter
\* splits.
splitn_unbounded(n, s, d) == split(s, d)

\* str::splitn(n, d): at most n segments, the last one keeps the rest unsplit;
\* n = 0 gives no segment at all.
RECURSIVE splitn(_, _, _)
splitn(n, s, d) ==
    IF n = 0 THEN << >>
    ELSE IF n = 1 THEN << s >>
    ELSE LET i == find_char(s, d, 1)
         IN  IF i = 0 THEN << s >>
             ELSE << SubSeq(s, 1, i - 1) >>
                  \o splitn(n - 1, SubSeq(s, i + Len(encode_utf8(d)), Len(s)), d)

\* Iterator::nth(i), zero-based.
nth(items, i) == IF i + 1 <= Len(items) THEN Some(items[i + 1]) ELSE None

\* Iterator::take(n) of a sequence.
take(items, n) == SubSeq(items, 1, IF n < Len(items) THEN n ELSE Len(items))

\* Faulty variant of last_unwrap_or: Iterator::next() in place of last(), the
\* first line the drain yields is kept.
first_unwrap_or(items, default) ==
    IF items = << >> THEN default ELSE items[1]

\* Faulty variant of last_unwrap_or: of the line recv returned and the lines
\* the drain yields, the last one that has a separator is kept; the last one
\* when none has.
last_parsable_unwrap_or(items, default) ==
    LET all == << default >> \o items
        ok  == { k \in 1..Len(all) :
                   split_once(trim_end_matches(all[k].text, NL), SPACE) # None }
    IN  IF ok = {} THEN all[Len(all)]
        ELSE all[CHOOSE k \in ok : \A m \in ok : m <= k]

\* Iterator::last().unwrap_or(default): the last item, the default when empty.
last_unwrap_or(items, default) ==
    IF items = << >> THEN default ELSE items[Len(items)]

\* ------------------------------------------------------------- extractors

ThroughExtractor == [kind |-> "Through", index |-> 0, partitions |-> 0, delimiter |-> TAB]
IndexExtractor(index, delimiter) ==
    [kind |-> "Index", index |-> index, partitions |-> 0, delimiter |-> delimiter]
PartitionExtractor(index, partitions, delimiter) ==
    [kind |-> "Partition", index |-> index, partitions |-> partitions,
     delimiter |-> delimiter]

\* Extractor::extract of the three implementations.
extract(e, s) ==
    CASE e.kind = "Through"   -> Some(s)
      [] e.kind = "Index"     -> nth(split(s, e.delimiter), e.index)
      [] e.kind = "Partition" -> nth(splitn(e.partitions, s, e.delimiter), e.index)

\* ------------------------------------------------------------------ scorer

IsWordChar(c) == c >= 48 /\ c # SPACE /\ c # TAB

\* The leftmost positions at which pattern p occurs in t as a subsequence,
\* << >> when it does not.
RECURSIVE leftmost_match(_, _, _, _)
leftmost_match(t, p, i, j) ==
    IF j > Len(p) THEN << 0 >>
    ELSE IF i > Len(t) THEN << >>
    ELSE IF t[i] = p[j]
         THEN LET rest == leftmost_match(t, p, i + 1, j + 1)
              IN  IF rest = << >> THEN << >> ELSE << i >> \o rest
         ELSE leftmost_match(t, p, i + 1, j)

\* fzf::get_score: the external fuzzy scorer, a deterministic function of the
\* candidate and the pattern; positive exactly when the pattern matches.
\* A match scores 16 per character, 16 more when it starts at a word
\* boundary, and loses one point per skipped character.
get_score(content, pattern) ==
    LET m == leftmost_match(content, pattern, 1, 1)
    IN  IF m = << >> THEN 0
        ELSE LET first == m[1]
                 last  == m[Len(pattern)]
                 bonus == IF first = 1 \/ ~IsWordChar(content[first - 1])
                          THEN 16 ELSE 0
             IN  16 * Len(pattern) + bonus - ((last - first + 1) - Len(pattern))


\* --------------------------------------------------------------- selection

\* Ord of str: byte-wise lexicographic, a proper prefix is smaller.
str_lt(a, b) ==
    \E i \in 1..(Len(b)) :
        /\ \A k \in 1..(i - 1) : k <= Len(a) /\ a[k] = b[k]
        /\ i - 1 <= Len(a)
        /\ (i = Len(a) + 1 \/ (i <= Len(a) /\ a[i] < b[i]))

\* Faulty variant of tuple_lt: the key is Reverse(score) alone, lines with
\* equal scores are not ordered.
score_only_lt(x, y) == x.score > y.score

\* Ord of (Reverse<i32>, &str), the element type of matched_lines: the higher
\* score is the smaller tuple, and equal scores compare by the line.
tuple_lt(x, y) ==
    \/ x.score > y.score
    \/ x.score = y.score /\ str_lt(x.line, y.line)

tuple_le(x, y) == x = y \/ tuple_lt(x, y)

\* The position sorting gives to element i of v: after every smaller element,
\* and after the elements before it in v that it is not smaller than (under
\* the total order of the tuples these are the elements equal to it).
sorted_position(v, i) ==
    1 + Cardinality({ j \in 1..Len(v) :
                        tuple_lt(v[j], v[i]) \/ (~tuple_lt(v[i], v[j]) /\ j < i) })

\* <[T]>::sort_unstable: the slice in ascending order of its elements.  Equal
\* elements are identical tuples, so the result does not depend on the order
\* the unstable sort leaves them in.
sort_unstable(v) ==
    [k \in 1..Len(v) |-> v[CHOOSE i \in 1..Len(v) : sorted_position(v, i) = k]]

\* Faulty variant of select_nth_unstable: the slice is left as it is, so the
\* part before index is a plain truncation of the matches in corpus order.
select_nth_untouched(v, index) == { v }

\* Faulty variant of select_nth_unstable: the elements are compared by their
\* score alone, so which of the lines with equal scores stay before index is
\* left to the call.
select_nth_by_score(v, index) ==
    { [i \in 1..Len(v) |-> v[p[i]]] : p \in
        { q \in Permutations(1..Len(v)) :
            /\ \A i \in 1..index : v[q[i]].score >= v[q[index + 1]].score
            /\ \A j \in (index + 2)..Len(v) : v[q[index + 1]].score >= v[q[j]].score } }

\* <[T]>::select_nth_unstable(index): every reordering of v the call may
\* leave: the element at index is at its sorted position, all elements before
\* it are <= it and all elements after it are >= it, in any order.  The code
\* calls it only with index < len (main.rs:122).
select_nth_unstable(v, index) ==
    { [i \in 1..Len(v) |-> v[p[i]]] : p \in
        { q \in Permutations(1..Len(v)) :
            /\ \A i \in 1..index : tuple_le(v[q[i]], v[q[index + 1]])
            /\ \A j \in (index + 2)..Len(v) : tuple_le(v[q[index + 1]], v[q[j]]) } }

\* Faulty variant of is_match: score >= 0, which keeps lines that do not match.
is_match_nonnegative(score) == score >= 0

\* The test of main.rs:115 that keeps a scored line.
is_match(score) == score > 0

\* The loop of main.rs:112-119: the (Reverse(score), line) pairs pushed, in
\* corpus order.
RECURSIVE score_lines(_, _, _)
score_lines(lines, e, pattern) ==
    IF lines = << >> THEN << >>
    ELSE LET content == extract(e, lines[1])
             rest    == score_lines(Tail(lines), e, pattern)
         IN  IF content # None /\ is_match(get_score(content[1], pattern))
             THEN << [score |-> get_score(content[1], pattern), line |-> lines[1]] >>
                  \o rest
             ELSE rest

\* The calls of get_score that loop makes: one per line whose field is present.
score_calls(lines, e) ==
    Cardinality({ i \in 1..Len(lines) : extract(e, lines[i]) # None })

\* main.rs:121-127: the slices matched_lines may be bound to before the sort.
limited_slices(matched, limit) ==
    IF limit # None /\ Len(matched) > limit[1]
    THEN { SubSeq(p, 1, limit[1]) : p \in select_nth_unstable(matched, limit[1]) }
    ELSE { matched }

\* main.rs:131: the lines of the sorted pairs.
lines_of(v) == [i \in 1..Len(v) |-> v[i].line]

\* Faulty variant of passthrough_lines: the limit is not applied.
passthrough_unlimited(lines, limit) == lines

\* main.rs:98-107: the corpus lines the empty-pattern branch prints.
passthrough_lines(lines, limit) ==
    IF limit # None THEN take(lines, limit[1]) ELSE lines

\* println!("{} {}", sequence, line) and println!("{}", sequence): the text of
\* the output line.
println_result(sequence, text) == sequence \o << SPACE >> \o text
println_eof(sequence) == sequence

\* main.rs:95: the line as (sequence, pattern), None when it has no space.
parse_line(text) == split_once(trim_end_matches(text, NL), SPACE)

\* ------------------------------------------------------------------- state

\* ------------------------------------------------------------- arguments

\* The byte strings of the command line: "--", the option keys as
\* opt_value_from_str is given them (short key first), the program's name and
\* a command.
DASHDASH == << 45, 45 >>
KEYS_DELIMITER ==
    << << 45, 100 >>,
       << 45, 45, 102, 105, 101, 108, 100, 45, 100, 101, 108, 105, 109, 105,
          116, 101, 114 >> >>
KEYS_INDEX ==
    << << 45, 102 >>,
       << 45, 45, 102, 105, 101, 108, 100, 45, 105, 110, 100, 101, 120 >> >>
KEYS_PARTITIONS ==
    << << 45, 112 >>,
       << 45, 45, 102, 105, 101, 108, 100, 45, 112, 97, 114, 116, 105, 116,
          105, 111, 110, 115 >> >>
KEYS_LIMIT ==
    << << 45, 108 >>,
       << 45, 45, 108, 105, 109, 105, 116, 45, 105, 116, 101, 109, 115 >> >>
PROGRAM == << 102, 122, 102, 45, 102, 105, 108, 116, 101, 114 >>
COMMAND == << 108, 115 >>

\* usize::MAX of a 64-bit target as decimal digits: "18446744073709551615".
USIZE_MAX_DIGITS ==
    << 49, 56, 52, 52, 54, 55, 52, 52, 48, 55, 51, 55, 48, 57, 53, 53, 49, 54,
       49, 53 >>

\* The digits of a number without its leading zeros.
RECURSIVE trim_leading_zeros(_)
trim_leading_zeros(s) ==
    IF s # << >> /\ s[1] = 48 THEN trim_leading_zeros(Tail(s)) ELSE s

\* usize::from_str: decimal digits after an optional '+'; None is the Err:
\* no digit, a character that is not a digit, or a number above usize::MAX.
RECURSIVE decimal(_)
decimal(s) ==
    IF s = << >> THEN 0
    ELSE 10 * decimal(SubSeq(s, 1, Len(s) - 1)) + (s[Len(s)] - 48)
usize_from_str(s) ==
    LET digits      == IF s # << >> /\ s[1] = 43 THEN Tail(s) ELSE s
        significant == trim_leading_zeros(digits)
        overflow    == \/ Len(significant) > Len(USIZE_MAX_DIGITS)
                       \/ /\ Len(significant) = Len(USIZE_MAX_DIGITS)
                          /\ str_lt(USIZE_MAX_DIGITS, significant)
    IN  IF digits = << >> \/ \E k \in 1..Len(digits) : digits[k] \notin 48..57
        THEN None
        ELSE IF overflow THEN None
        ELSE Some(decimal(significant))

\* char::from_str: a string of exactly one char gives that char; None is the
\* Err (and the Err of an argument that is not UTF-8).
char_from_str(s) == decode_one_char(s)

\* usize to_string, for the values a command line of the model carries.
usize_to_string(n) == IF n < 10 THEN << 48 + n >> ELSE << 48 + (n \div 10), 48 + (n % 10) >>

\* pico_args opt_value_from_str: the first key that occurs, at its first
\* place, takes the argument after it as its value; key and value are removed.
\* err: the key is the last argument, or from_str rejects the value.
opt_value_from_str(args, keys, from_str(_)) ==
    LET present == { k \in 1..Len(keys) : \E i \in 1..Len(args) : args[i] = keys[k] }
    IN  IF present = {}
        THEN [err |-> FALSE, value |-> None, rest |-> args]
        ELSE LET k == CHOOSE x \in present : \A y \in present : x <= y
                 i == CHOOSE x \in 1..Len(args) :
                        /\ args[x] = keys[k]
                        /\ \A y \in 1..(x - 1) : args[y] # keys[k]
             IN  IF i = Len(args) \/ from_str(args[i + 1]) = None
                 THEN [err |-> TRUE, value |-> None, rest |-> args]
                 ELSE [err |-> FALSE, value |-> from_str(args[i + 1]),
                       rest |-> SubSeq(args, 1, i - 1) \o SubSeq(args, i + 2, Len(args))]

\* Args::parse: kind "None" is Ok(None), "Err" is Err(error), "Some" is
\* Ok(Some(args)).
NoArgs(kind) ==
    [kind |-> kind, command |-> << >>, command_args |-> << >>,
     field_delimiter |-> TAB, field_index |-> None, field_partitions |-> None,
     limit_items |-> None]
Args_parse(args) ==
    LET seps      == { i \in 1..Len(args) : args[i] = DASHDASH }
        sep       == IF seps = {} THEN Len(args) + 1
                     ELSE CHOOSE x \in seps : \A y \in seps : x <= y
        main_args == SubSeq(args, 1, sep - 1)
        iter      == SubSeq(args, sep + 1, Len(args))
        d == opt_value_from_str(main_args, KEYS_DELIMITER, char_from_str)
        f == opt_value_from_str(d.rest, KEYS_INDEX, usize_from_str)
        p == opt_value_from_str(f.rest, KEYS_PARTITIONS, usize_from_str)
        l == opt_value_from_str(p.rest, KEYS_LIMIT, usize_from_str)
    IN  IF iter = << >> THEN NoArgs("None")
        ELSE IF d.err \/ f.err \/ p.err \/ l.err THEN NoArgs("Err")
        ELSE [kind |-> "Some", command |-> Head(iter), command_args |-> Tail(iter),
              field_delimiter |-> IF d.value = None THEN TAB ELSE d.value[1],
              field_index |-> f.value, field_partitions |-> p.value,
              limit_items |-> l.value]

\* run, main.rs:52-72: the extractor the arguments select.
extractor_of(args) ==
    IF args.field_index # None /\ args.field_partitions # None
    THEN PartitionExtractor(args.field_index[1], args.field_partitions[1],
                            args.field_delimiter)
    ELSE IF args.field_index # None
    THEN IndexExtractor(args.field_index[1], args.field_delimiter)
    ELSE ThroughExtractor

\* A command line that gives a limit and an extractor.
argv_of(limit, e) ==
    << PROGRAM >>
    \o (IF limit = None THEN << >>
        ELSE << KEYS_LIMIT[1], usize_to_string(limit[1]) >>)
    \o (IF e.kind = "Through" THEN << >>
        ELSE << KEYS_INDEX[1], usize_to_string(e.index) >>)
    \o (IF e.kind = "Partition"
        THEN << KEYS_PARTITIONS[1], usize_to_string(e.partitions) >> ELSE << >>)
    \o (IF e.kind = "Through" \/ e.delimiter = TAB THEN << >>
        ELSE << KEYS_DELIMITER[1], encode_utf8(e.delimiter) >>)
    \o << DASHDASH, COMMAND >>

VARIABLES
    output_content,  \* output_content.lines(): the captured corpus, line by line
    limit_items,     \* Option<usize>
    extractor,       \* the extractor run() builds from the arguments
    stdin_read,      \* history: the lines read_line has returned so far
    stdin_state,     \* "open", "eof" (read_line gave 0 bytes) or "error"
    r_pc,            \* reader thread: "read", "send", or "done" (tx dropped)
    buffer,          \* the reader's line buffer
    chan,            \* the mpsc channel: queued lines, oldest first
    c_pc,            \* main thread: "main", "recv", "drain", "parse", "select", "print", "done"
    batch,           \* the lines taken from the channel in this iteration
    line,            \* the line kept after the drain
    sequence,        \* the sequence id of the query being answered
    matched_lines,   \* the (Reverse(score), line) pairs pushed by the scoring loop
    to_print,        \* result lines of the response still to be printed
    stdout,          \* history: the lines printed so far
    discarded,       \* history: input lines that were in a batch before its last
    n_pattern_new,   \* history: calls of fzf::Pattern::new
    n_get_score,     \* history: calls of fzf::get_score
    exit_code,       \* what main returned, "none" while it runs
    argv,            \* env::args_os(): the command line
    help_printed,    \* history: HELP was printed on stdout
    stderr,          \* history: what was written to stderr
    n_command_output, \* history: calls of Command::output
    command_status   \* how the command ended: "none", "success", "failure", "error"

vars == << output_content, limit_items, extractor, stdin_read, stdin_state,
           r_pc, buffer, chan, c_pc, batch, line, sequence, matched_lines,
           to_print, stdout,
           discarded, n_pattern_new, n_get_score, exit_code,
           argv, help_printed, stderr, n_command_output,
           command_status >>

config_vars == << output_content, limit_items, extractor >>
reader_vars == << stdin_read, stdin_state, r_pc, buffer >>
scorer_vars == << n_pattern_new, n_get_score >>
main_vars == << argv, help_printed, stderr, n_command_output, command_status >>

\* A queued line: its text and, for the history, its position on the input.
Msg(i, text) == [idx |-> i, text |-> text]
NoLine == Msg(0, << >>)

\* ------------------------------------------------------------ input values

\* "1 a\n", "2 b\n", "3 \n" (empty pattern) and "x\n" (no separator).
InputLines ==
    { << 49, SPACE, 97, NL >>, << 50, SPACE, 98, NL >>,
      << 51, SPACE, NL >>, << 120, NL >> }

\* Corpora of the loop specification: "ab", "a", "b\ta", and "ba", "b".
LoopCorpora ==
    { << << 97, 98 >>, << 97 >>, << 98, TAB, 97 >> >>,
      << << 98, 97 >>, << 98 >> >> }
LoopLimits == { None, Some(1) }
LoopExtractors == { ThroughExtractor, IndexExtractor(1, TAB) }

\* Corpus lines of the single-query specification: "a", "ab", "ba", "b\ta".
CorpusLines ==
    { << 97 >>, << 97, 98 >>, << 98, 97 >>, << 98, TAB, 97 >> }
RECURSIVE SeqsUpTo(_, _)
SeqsUpTo(S, n) ==
    IF n = 0 THEN { << >> }
    ELSE LET shorter == SeqsUpTo(S, n - 1)
             longest == { u \in shorter : Len(u) = n - 1 }
         IN  shorter \cup { << x >> \o t : x \in S, t \in longest }
\* "7 a\n", "7 ab\n", "7 b\n", "7 \n", "7\n", and the patterns of one
\* space and of one tab, "7  \n" and "7 \t\n".
QueryLines ==
    { << 55, SPACE, 97, NL >>, << 55, SPACE, 97, 98, NL >>, << 55, SPACE, 98, NL >>,
      << 55, SPACE, NL >>, << 55, NL >>,
      << 55, SPACE, SPACE, NL >>, << 55, SPACE, TAB, NL >> }
QueryLimits == { None } \cup { Some(k) : k \in 0..(MaxCorpus + 1) }
QueryExtractors ==
    { ThroughExtractor, IndexExtractor(1, TAB),
      PartitionExtractor(0, 1, TAB), PartitionExtractor(1, 1, TAB) }

\* Command lines: the program's name, options, and what names the command.
\* Options: none; -l 1; -l x; -l without a value; -f 1; -f 1 -p 2; -p 2;
\* -d , -f 0; -d ,, ; --limit-items +1; -d e-acute -f 0 (a delimiter of two
\* bytes); -l 18446744073709551616 (usize::MAX + 1).
OptionLists ==
    { << >>,
      << KEYS_LIMIT[1], << 49 >> >>,
      << KEYS_LIMIT[1], << 120 >> >>,
      << KEYS_LIMIT[1] >>,
      << KEYS_INDEX[1], << 49 >> >>,
      << KEYS_INDEX[1], << 49 >>, KEYS_PARTITIONS[1], << 50 >> >>,
      << KEYS_PARTITIONS[1], << 50 >> >>,
      << KEYS_DELIMITER[1], << 44 >>, KEYS_INDEX[1], << 48 >> >>,
      << KEYS_DELIMITER[1], << 44, 44 >> >>,
      << KEYS_LIMIT[2], << 43, 49 >> >>,
      << KEYS_DELIMITER[1], << 195, 169 >>, KEYS_INDEX[1], << 48 >> >>,
      << KEYS_LIMIT[1],
         << 49, 56, 52, 52, 54, 55, 52, 52, 48, 55, 51, 55, 48, 57, 53, 53, 49,
            54, 49, 54 >> >> }
\* Nothing; "--" alone; "-- ls"; "-- ls -l".
CommandTails ==
    { << >>, << DASHDASH >>, << DASHDASH, COMMAND >>,
      << DASHDASH, COMMAND, KEYS_LIMIT[1] >> }
ArgVectors == { << PROGRAM >> \o o \o t : o \in OptionLists, t \in CommandTails }
\* What the command writes: the corpus "ab", "b\ta" on stdout; nothing or "e"
\* on stderr.
CommandStdouts == { << << 97, 98 >>, << 98, TAB, 97 >> >> }
CommandStderrs == { << >>, << 101 >> }

\* The field-extraction specification: one corpus line of up to MaxLine
\* characters out of "a", "b" and tab, the delimiter a tab or "b", every index
\* up to 2 and every partition count up to 3; the queries "7 a\n", "7 \n"
\* and "7\n".
ExtractChars == { 97, 98, TAB }
ExtractLines == SeqsUpTo(ExtractChars, MaxLine)
ExtractDelimiters == { TAB, 98 }
ExtractExtractors ==
    { ThroughExtractor }
    \cup { IndexExtractor(i, d) : i \in 0..2, d \in ExtractDelimiters }
    \cup { PartitionExtractor(i, n, d) : i \in 0..2, n \in 0..3, d \in ExtractDelimiters }
ExtractQueries ==
    { << 55, SPACE, 97, NL >>, << 55, SPACE, NL >>, << 55, NL >> }

\* -------------------------------------------------------------------- Init

\* main has parsed a command line that gives the limit and the extractor, and
\* run has captured the command's output.
Started ==
    /\ argv = argv_of(limit_items, extractor)
    /\ help_printed = FALSE
    /\ stderr = << >>
    /\ n_command_output = 1
    /\ command_status = "success"

\* run_loop as it starts: the channel is empty and the reader thread is
\* spawned, the consumer is about to call recv.
InitLoopState ==
    /\ Started
    /\ stdin_read = << >>
    /\ stdin_state = "open"
    /\ r_pc = "read"
    /\ buffer = << >>
    /\ chan = << >>
    /\ c_pc = "recv"
    /\ batch = << >>
    /\ line = NoLine
    /\ sequence = << >>
    /\ matched_lines = << >>
    /\ to_print = << >>
    /\ stdout = << >>
    /\ discarded = {}
    /\ n_pattern_new = 0
    /\ n_get_score = 0
    /\ exit_code = "none"

Init ==
    /\ output_content \in LoopCorpora
    /\ limit_items \in LoopLimits
    /\ extractor \in LoopExtractors
    /\ InitLoopState

\* ------------------------------------------------------------ reader thread

\* main.rs:83: read_line returns a line of the input, appended to buffer
\* (which the send before has left empty).
ReadLine ==
    /\ r_pc = "read"
    /\ Len(stdin_read) < MaxInput
    /\ \E l \in InputLines :
        /\ buffer' = buffer \o l
        /\ stdin_read' = Append(stdin_read, l)
    /\ r_pc' = "send"
    /\ UNCHANGED << main_vars, config_vars, stdin_state, chan, c_pc, batch, line,
                    sequence, matched_lines, to_print, stdout, discarded,
                    scorer_vars, exit_code >>

\* main.rs:84-86: read_line returns 0 bytes, the loop breaks and tx is dropped.
ReadEof ==
    /\ r_pc = "read"
    /\ stdin_state' = "eof"
    /\ r_pc' = "done"
    /\ UNCHANGED << main_vars, config_vars, stdin_read, buffer, chan, c_pc, batch, line,
                    sequence, matched_lines, to_print, stdout, discarded,
                    scorer_vars, exit_code >>

\* main.rs:83: read_line returns Err (the line is not UTF-8): the while let
\* ends, nothing is sent for that line and tx is dropped.
ReadErr ==
    /\ r_pc = "read"
    /\ stdin_state' = "error"
    /\ r_pc' = "done"
    /\ UNCHANGED << main_vars, config_vars, stdin_read, buffer, chan, c_pc, batch, line,
                    sequence, matched_lines, to_print, stdout, discarded,
                    scorer_vars, exit_code >>

\* Faulty variant of Send: a bounded channel (mpsc::sync_channel(1)), whose
\* send waits while a line is queued.
SendBounded ==
    /\ r_pc = "send"
    /\ Len(chan) < 1
    /\ chan' = Append(chan, Msg(Len(stdin_read), buffer))
    /\ buffer' = << >>
    /\ r_pc' = "read"
    /\ UNCHANGED << main_vars, config_vars, stdin_read, stdin_state, c_pc, batch, line,
                    sequence, matched_lines, to_print, stdout, discarded,
                    scorer_vars, exit_code >>

\* Faulty variant of Send: buffer.clone() in place of mem::take, the buffer
\* keeps the line and the next read_line appends to it.
SendClone ==
    /\ r_pc = "send"
    /\ chan' = Append(chan, Msg(Len(stdin_read), buffer))
    /\ r_pc' = "read"
    /\ UNCHANGED << main_vars, config_vars, stdin_read, stdin_state, buffer, c_pc,
                    batch, line, sequence, matched_lines, to_print, stdout,
                    discarded, scorer_vars, exit_code >>

\* main.rs:87: tx.send(mem::take(&mut buffer)) on the unbounded channel.
Send ==
    /\ r_pc = "send"
    /\ chan' = Append(chan, Msg(Len(stdin_read), buffer))
    /\ buffer' = << >>
    /\ r_pc' = "read"
    /\ UNCHANGED << main_vars, config_vars, stdin_read, stdin_state, c_pc, batch, line,
                    sequence, matched_lines, to_print, stdout, discarded,
                    scorer_vars, exit_code >>

Reader == ReadLine \/ ReadEof \/ ReadErr \/ Send

\* ---------------------------------------------------------------- consumer

\* main.rs:93: rx.recv() returns the oldest queued line.
Recv ==
    /\ c_pc = "recv"
    /\ chan # << >>
    /\ batch' = << Head(chan) >>
    /\ chan' = Tail(chan)
    /\ c_pc' = "drain"
    /\ UNCHANGED << main_vars, config_vars, reader_vars, line, sequence, matched_lines,
                    to_print, stdout, discarded, scorer_vars, exit_code >>

\* Faulty variant of RecvDisconnected: the loop ends as soon as tx is dropped,
\* whatever is still queued.
RecvDisconnectedEager ==
    /\ c_pc = "recv"
    /\ r_pc = "done"
    /\ c_pc' = "done"
    /\ exit_code' = "SUCCESS"
    /\ UNCHANGED << main_vars, config_vars, reader_vars, chan, batch, line, sequence,
                    matched_lines, to_print, stdout, discarded, scorer_vars >>

\* Faulty variant of RecvDisconnected: try_recv in place of recv, the loop
\* ends when the channel is empty although the reader still runs.
RecvWhenEmpty ==
    /\ c_pc = "recv"
    /\ chan = << >>
    /\ c_pc' = "done"
    /\ exit_code' = "SUCCESS"
    /\ UNCHANGED << main_vars, config_vars, reader_vars, chan, batch, line, sequence,
                    matched_lines, to_print, stdout, discarded, scorer_vars >>

\* main.rs:93, 74: rx.recv() returns Err once the channel is empty and tx is
\* dropped; the loop ends and run returns ExitCode::SUCCESS.
RecvDisconnected ==
    /\ c_pc = "recv"
    /\ chan = << >>
    /\ r_pc = "done"
    /\ c_pc' = "done"
    /\ exit_code' = "SUCCESS"
    /\ UNCHANGED << main_vars, config_vars, reader_vars, chan, batch, line, sequence,
                    matched_lines, to_print, stdout, discarded, scorer_vars >>

\* main.rs:94: rx.try_iter() yields one more queued line.
TryRecv ==
    /\ c_pc = "drain"
    /\ chan # << >>
    /\ batch' = Append(batch, Head(chan))
    /\ chan' = Tail(chan)
    /\ UNCHANGED << main_vars, config_vars, reader_vars, c_pc, line, sequence,
                    matched_lines, to_print, stdout, discarded, scorer_vars,
                    exit_code >>

\* main.rs:94: try_iter finds the channel empty; last().unwrap_or(line) keeps
\* the last line it yielded, or the line recv returned.
DrainEnd ==
    /\ c_pc = "drain"
    /\ chan = << >>
    /\ line' = last_unwrap_or(Tail(batch), batch[1])
    /\ discarded' = discarded \cup { batch[k].idx : k \in 1..(Len(batch) - 1) }
    /\ c_pc' = "parse"
    /\ UNCHANGED << main_vars, config_vars, reader_vars, chan, batch, sequence,
                    matched_lines, to_print, stdout, scorer_vars, exit_code >>

\* Faulty variant of ParseFail: break in place of continue, a malformed line
\* ends the loop.
ParseFailBreak ==
    /\ c_pc = "parse"
    /\ parse_line(line.text) = None
    /\ c_pc' = "done"
    /\ exit_code' = "SUCCESS"
    /\ UNCHANGED << main_vars, config_vars, reader_vars, chan, batch, line, sequence,
                    matched_lines, to_print, stdout, discarded, scorer_vars >>

\* main.rs:95-97: the line has no space: continue.
ParseFail ==
    /\ c_pc = "parse"
    /\ parse_line(line.text) = None
    /\ c_pc' = "recv"
    /\ UNCHANGED << main_vars, config_vars, reader_vars, chan, batch, line, sequence,
                    matched_lines, to_print, stdout, discarded, scorer_vars,
                    exit_code >>

\* Faulty variant of Passthrough: the empty pattern passes through only the
\* lines that have a field.
PassthroughFields ==
    /\ c_pc = "parse"
    /\ parse_line(line.text) # None
    /\ LET parsed == parse_line(line.text)[1]
           with_field(l) == extract(extractor, l) # None
       IN  /\ parsed[2] = << >>
           /\ sequence' = parsed[1]
           /\ to_print' = passthrough_lines(SelectSeq(output_content, with_field),
                                            limit_items)
    /\ c_pc' = "print"
    /\ UNCHANGED << main_vars, config_vars, reader_vars, chan, batch, line, matched_lines,
                    stdout, discarded, scorer_vars, exit_code >>

\* main.rs:98-107: the pattern is empty: the corpus lines, up to the limit,
\* are what the branch prints.
Passthrough ==
    /\ c_pc = "parse"
    /\ parse_line(line.text) # None
    /\ LET parsed == parse_line(line.text)[1]
       IN  /\ parsed[2] = << >>
           /\ sequence' = parsed[1]
           /\ to_print' = passthrough_lines(output_content, limit_items)
    /\ c_pc' = "print"
    /\ UNCHANGED << main_vars, config_vars, reader_vars, chan, batch, line, matched_lines,
                    stdout, discarded, scorer_vars, exit_code >>

\* Faulty variant of Score: the scoring loop stops at the first match when a
\* newer line is queued.
ScoreUnlessNewer ==
    /\ c_pc = "parse"
    /\ parse_line(line.text) # None
    /\ LET parsed == parse_line(line.text)[1]
           all    == score_lines(output_content, extractor, parsed[2])
       IN  /\ parsed[2] # << >>
           /\ sequence' = parsed[1]
           /\ matched_lines' = IF chan = << >> THEN all ELSE take(all, 1)
    /\ n_pattern_new' = n_pattern_new + 1
    /\ n_get_score' = n_get_score + score_calls(output_content, extractor)
    /\ c_pc' = "select"
    /\ UNCHANGED << main_vars, config_vars, reader_vars, chan, batch, line, to_print,
                    stdout, discarded, exit_code >>

\* main.rs:108-119: the pattern is built and every line with a field is
\* scored; the lines that match are pushed to matched_lines.
Score ==
    /\ c_pc = "parse"
    /\ parse_line(line.text) # None
    /\ LET parsed == parse_line(line.text)[1]
       IN  /\ parsed[2] # << >>
           /\ sequence' = parsed[1]
           /\ matched_lines' = score_lines(output_content, extractor, parsed[2])
    /\ n_pattern_new' = n_pattern_new + 1
    /\ n_get_score' = n_get_score + score_calls(output_content, extractor)
    /\ c_pc' = "select"
    /\ UNCHANGED << main_vars, config_vars, reader_vars, chan, batch, line, to_print,
                    stdout, discarded, exit_code >>

\* main.rs:121-129: the matches are cut to the limit by select_nth_unstable,
\* and what is left is sorted.
Select ==
    /\ c_pc = "select"
    /\ \E slice \in limited_slices(matched_lines, limit_items) :
        to_print' = lines_of(sort_unstable(slice))
    /\ matched_lines' = << >>
    /\ c_pc' = "print"
    /\ UNCHANGED << main_vars, config_vars, reader_vars, chan, batch, line, sequence,
                    stdout, discarded, scorer_vars, exit_code >>

\* main.rs:100-106, 131-133: one result line is printed.
PrintLine ==
    /\ c_pc = "print"
    /\ to_print # << >>
    /\ stdout' = Append(stdout, [idx |-> line.idx, eof |-> FALSE,
                                 text |-> println_result(sequence, Head(to_print))])
    /\ to_print' = Tail(to_print)
    /\ UNCHANGED << main_vars, config_vars, reader_vars, chan, c_pc, batch, line,
                    sequence, matched_lines, discarded, scorer_vars,
                    exit_code >>

\* Faulty variant of PrintEof: the end marker is printed only after at least
\* one result line.
PrintEofAfterResults ==
    /\ c_pc = "print"
    /\ to_print = << >>
    /\ stdout' = IF \E k \in 1..Len(stdout) : stdout[k].idx = line.idx
                 THEN Append(stdout, [idx |-> line.idx, eof |-> TRUE,
                                      text |-> println_eof(sequence)])
                 ELSE stdout
    /\ c_pc' = "recv"
    /\ UNCHANGED << main_vars, config_vars, reader_vars, chan, batch, line, sequence,
                    matched_lines, to_print, discarded, scorer_vars,
                    exit_code >>

\* main.rs:136: the end marker is printed and the loop goes back to recv.
PrintEof ==
    /\ c_pc = "print"
    /\ to_print = << >>
    /\ stdout' = Append(stdout, [idx |-> line.idx, eof |-> TRUE,
                                 text |-> println_eof(sequence)])
    /\ c_pc' = "recv"
    /\ UNCHANGED << main_vars, config_vars, reader_vars, chan, batch, line, sequence,
                    matched_lines, to_print, discarded, scorer_vars,
                    exit_code >>

Consumer ==
    \/ Recv \/ RecvDisconnected \/ TryRecv \/ DrainEnd
    \/ ParseFail \/ Passthrough \/ Score \/ Select \/ PrintLine \/ PrintEof

Next == Reader \/ Consumer

Spec == Init /\ [][Next]_vars

\* One query against one corpus: the reader has read a single line and ended,
\* the line is queued, and the consumer is about to receive it.
InitQuery ==
    /\ output_content \in SeqsUpTo(CorpusLines, MaxCorpus)
    /\ limit_items \in QueryLimits
    /\ extractor \in QueryExtractors
    /\ Started
    /\ \E q \in QueryLines :
        /\ stdin_read = << q >>
        /\ chan = << Msg(1, q) >>
    /\ stdin_state = "eof"
    /\ r_pc = "done"
    /\ buffer = << >>
    /\ c_pc = "recv"
    /\ batch = << >>
    /\ line = NoLine
    /\ sequence = << >>
    /\ matched_lines = << >>
    /\ to_print = << >>
    /\ stdout = << >>
    /\ discarded = {}
    /\ n_pattern_new = 0
    /\ n_get_score = 0
    /\ exit_code = "none"

NextQuery ==
    \/ Recv \/ DrainEnd \/ ParseFail \/ Passthrough \/ Score \/ Select
    \/ PrintLine \/ PrintEof \/ RecvDisconnected

SpecQuery == InitQuery /\ [][NextQuery]_vars

\* One query against a corpus of one line, for every extractor.
InitExtract ==
    /\ \E l \in ExtractLines : output_content = << l >>
    /\ limit_items = None
    /\ extractor \in ExtractExtractors
    /\ Started
    /\ \E q \in ExtractQueries :
        /\ stdin_read = << q >>
        /\ chan = << Msg(1, q) >>
    /\ stdin_state = "eof"
    /\ r_pc = "done"
    /\ buffer = << >>
    /\ c_pc = "recv"
    /\ batch = << >>
    /\ line = NoLine
    /\ sequence = << >>
    /\ matched_lines = << >>
    /\ to_print = << >>
    /\ stdout = << >>
    /\ discarded = {}
    /\ n_pattern_new = 0
    /\ n_get_score = 0
    /\ exit_code = "none"

SpecExtract == InitExtract /\ [][NextQuery]_vars

\* The loop with both threads scheduled fairly: a thread that can take a step
\* eventually takes one.  The input is the environment's: nothing forces a
\* line to arrive or the stream to close.
InitFair ==
    /\ output_content = << << 97, 98 >>, << 97 >>, << 98, TAB, 97 >> >>
    /\ limit_items = Some(1)
    /\ extractor = ThroughExtractor
    /\ InitLoopState

FairSpec ==
    /\ InitFair
    /\ [][Next]_vars
    /\ WF_vars(Send)
    /\ WF_vars(Consumer)

\* ------------------------------------------------------------------- main

\* main.rs:26-32: Args::parse returns Ok(None); HELP is printed and main
\* returns ExitCode::SUCCESS.
MainHelp ==
    /\ c_pc = "main"
    /\ Args_parse(argv).kind = "None"
    /\ help_printed' = TRUE
    /\ exit_code' = "SUCCESS"
    /\ c_pc' = "done"
    /\ UNCHANGED << config_vars, reader_vars, chan, batch, line, sequence,
                    matched_lines, to_print, stdout, discarded, scorer_vars,
                    argv, stderr, n_command_output, command_status >>

\* main.rs:26-37: Args::parse returns Err; HELP is printed, the error is
\* written to stderr and main returns ExitCode::FAILURE.
MainError ==
    /\ c_pc = "main"
    /\ Args_parse(argv).kind = "Err"
    /\ help_printed' = TRUE
    /\ stderr' = Append(stderr, [from |-> "main", text |-> << >>])
    /\ exit_code' = "FAILURE"
    /\ c_pc' = "done"
    /\ UNCHANGED << config_vars, reader_vars, chan, batch, line, sequence,
                    matched_lines, to_print, stdout, discarded, scorer_vars,
                    argv, n_command_output, command_status >>

\* main.rs:42-44: Command::output returns Err (the command cannot be
\* started); the ? makes main return the error, which ends the process with
\* the failure status and the error on stderr.
RunOutputErr ==
    /\ c_pc = "main"
    /\ Args_parse(argv).kind = "Some"
    /\ n_command_output' = n_command_output + 1
    /\ command_status' = "error"
    /\ stderr' = Append(stderr, [from |-> "main", text |-> << >>])
    /\ exit_code' = "FAILURE"
    /\ c_pc' = "done"
    /\ UNCHANGED << config_vars, reader_vars, chan, batch, line, sequence,
                    matched_lines, to_print, stdout, discarded, scorer_vars,
                    argv, help_printed >>

\* Faulty variant of RunCommandFails: the exit status is not looked at, and
\* run goes on to run_loop with what the command printed.
RunCommandFailsUnchecked ==
    /\ c_pc = "main"
    /\ Args_parse(argv).kind = "Some"
    /\ n_command_output' = n_command_output + 1
    /\ command_status' = "failure"
    /\ output_content' \in CommandStdouts
    /\ limit_items' = Args_parse(argv).limit_items
    /\ extractor' = extractor_of(Args_parse(argv))
    /\ r_pc' = "read"
    /\ c_pc' = "recv"
    /\ UNCHANGED << stdin_read, stdin_state, buffer, chan, batch, line,
                    sequence, matched_lines, to_print, stdout, discarded,
                    scorer_vars, exit_code, argv, help_printed, stderr >>

\* main.rs:42-48: the command exits with a status that is not success; its
\* stderr is written to stderr and run returns ExitCode::FAILURE.
RunCommandFails ==
    /\ c_pc = "main"
    /\ Args_parse(argv).kind = "Some"
    /\ n_command_output' = n_command_output + 1
    /\ command_status' = "failure"
    /\ \E text \in CommandStderrs :
        stderr' = Append(stderr, [from |-> "command", text |-> text])
    /\ exit_code' = "FAILURE"
    /\ c_pc' = "done"
    /\ UNCHANGED << config_vars, reader_vars, chan, batch, line, sequence,
                    matched_lines, to_print, stdout, discarded, scorer_vars,
                    argv, help_printed >>

\* main.rs:42-72, 78-91: the command exits with success; its output is the
\* corpus, the arguments give the limit and the extractor, and run_loop
\* creates the channel and spawns the reader thread.
RunCommandSucceeds ==
    /\ c_pc = "main"
    /\ Args_parse(argv).kind = "Some"
    /\ n_command_output' = n_command_output + 1
    /\ command_status' = "success"
    /\ output_content' \in CommandStdouts
    /\ limit_items' = Args_parse(argv).limit_items
    /\ extractor' = extractor_of(Args_parse(argv))
    /\ r_pc' = "read"
    /\ c_pc' = "recv"
    /\ UNCHANGED << stdin_read, stdin_state, buffer, chan, batch, line,
                    sequence, matched_lines, to_print, stdout, discarded,
                    scorer_vars, exit_code, argv, help_printed, stderr >>

Main ==
    \/ MainHelp \/ MainError
    \/ RunOutputErr \/ RunCommandFails \/ RunCommandSucceeds

\* The process from its start: main has not parsed the command line, no
\* thread is spawned and nothing is captured.
InitMain ==
    /\ argv \in ArgVectors
    /\ help_printed = FALSE
    /\ stderr = << >>
    /\ n_command_output = 0
    /\ command_status = "none"
    /\ output_content = << >>
    /\ limit_items = None
    /\ extractor = ThroughExtractor
    /\ stdin_read = << >>
    /\ stdin_state = "open"
    /\ r_pc = "unspawned"
    /\ buffer = << >>
    /\ chan = << >>
    /\ c_pc = "main"
    /\ batch = << >>
    /\ line = NoLine
    /\ sequence = << >>
    /\ matched_lines = << >>
    /\ to_print = << >>
    /\ stdout = << >>
    /\ discarded = {}
    /\ n_pattern_new = 0
    /\ n_get_score = 0
    /\ exit_code = "none"

NextMain == Main \/ Next

SpecMain == InitMain /\ [][NextMain]_vars

\* ------------------------------------------------- history of a behaviour

WellFormed(i) == parse_line(stdin_read[i]) # None
SequenceOf(i) == parse_line(stdin_read[i])[1][1]
PatternOf(i) == parse_line(stdin_read[i])[1][2]

\* The input lines the consumer has taken from the channel.
Taken ==
    1..(Len(stdin_read) - Len(chan) - (IF r_pc = "send" THEN 1 ELSE 0))

\* The input lines of the iteration the consumer is in.
InIteration(i) ==
    /\ c_pc \in { "drain", "parse", "select", "print" }
    /\ \E k \in 1..Len(batch) : batch[k].idx = i

\* The input lines the consumer kept after a drain and is through with.
Finished(i) == i \in Taken /\ i \notin discarded /\ ~InIteration(i)

\* The positions of stdout that belong to input line i.
OutputOf(i) == { k \in 1..Len(stdout) : stdout[k].idx = i }
EofOf(i) == { k \in OutputOf(i) : stdout[k].eof }

\* The texts of the result lines printed for input line i, in output order.
ResultTexts(i) ==
    LET mine(e) == e.idx = i /\ ~e.eof
        es == SelectSeq(stdout, mine)
    IN  [k \in 1..Len(es) |-> es[k].text]

\* The result lines of the response to the kept line: those printed and those
\* still to print.
Response ==
    ResultTexts(line.idx)
    \o [k \in 1..Len(to_print) |-> println_result(sequence, to_print[k])]

\* The consumer has chosen the response to the kept line.
Answering ==
    /\ c_pc \in { "print", "recv", "done" }
    /\ line # NoLine
    /\ WellFormed(line.idx)

Format(sequence_id, lines) ==
    [k \in 1..Len(lines) |-> println_result(sequence_id, lines[k])]

Min(a, b) == IF a < b THEN a ELSE b

\* The corpus positions whose field exists and scores above 0 for a pattern.
Matching(pattern) ==
    { i \in 1..Len(output_content) :
        /\ extract(extractor, output_content[i]) # None
        /\ get_score(extract(extractor, output_content[i])[1], pattern) > 0 }

\* The score of a corpus line for a pattern (the line has a field).
ScoreOf(l, pattern) == get_score(extract(extractor, l)[1], pattern)

\* ------------------------------------------------------------------ claims

\* C1: of the lines taken from the channel in one drain only the last is
\* processed: the line kept is the last of the batch, and no output line is
\* ever printed for a line that came earlier in its batch.
C1_Coalescing ==
    /\ \A i \in discarded : OutputOf(i) = {}
    /\ c_pc \in { "parse", "select", "print" } => line = batch[Len(batch)]
    /\ \A k \in 1..Len(stdout) : stdout[k].idx \in Taken \ discarded

\* The queries 1, 2, 3 were queued together, drained as one batch, and the
\* response to 3 is complete.
C1_Witness ==
    /\ Len(batch) = 3
    /\ \A k \in 1..3 : batch[k].idx = k /\ WellFormed(k)
    /\ SequenceOf(1) = << 49 >> /\ SequenceOf(2) = << 50 >> /\ SequenceOf(3) = << 51 >>
    /\ c_pc = "recv"
    /\ discarded = { 1, 2 }
    /\ EofOf(3) # {}

\* C2: every processed query has exactly one end marker, the query's
\* sequence id alone, printed after all of its result lines.
C2_EndMarker ==
    /\ \A i \in 1..Len(stdin_read) :
        Finished(i) /\ WellFormed(i) => Cardinality(EofOf(i)) = 1
    /\ \A k \in 1..Len(stdout) :
        LET i == stdout[k].idx
        IN  IF stdout[k].eof
            THEN /\ stdout[k].text = SequenceOf(i)
                 /\ \A j \in OutputOf(i) \ { k } : j < k /\ ~stdout[j].eof
            ELSE \E l \in 1..Len(output_content) :
                    stdout[k].text = println_result(SequenceOf(i), output_content[l])

\* The loop has ended after three responses: an empty pattern, a pattern with
\* matches, and a pattern that matches nothing (its end marker stands alone).
C2_Witness ==
    /\ c_pc = "done"
    /\ Len(stdin_read) = 3
    /\ \A i \in 1..3 : Cardinality(EofOf(i)) = 1
    /\ \E i \in 1..3 : PatternOf(i) = << >> /\ Cardinality(OutputOf(i)) > 1
    /\ \E i \in 1..3 : PatternOf(i) # << >> /\ Cardinality(OutputOf(i)) > 1
    /\ \E i \in 1..3 : PatternOf(i) # << >> /\ Cardinality(OutputOf(i)) = 1

\* C3: with a limit K and a non-empty pattern the response is the first K of
\* all matched pairs sorted, in that order, and has min(K, matches) lines.
C3_LimitedEqualsSortTruncate ==
    (Answering /\ PatternOf(line.idx) # << >> /\ limit_items # None) =>
        LET pattern == PatternOf(line.idx)
            all     == sort_unstable(score_lines(output_content, extractor, pattern))
            top     == take(all, limit_items[1])
        IN  /\ Response = Format(SequenceOf(line.idx),
                                 [k \in 1..Len(top) |-> top[k].line])
            /\ Len(Response) = Min(limit_items[1], Cardinality(Matching(pattern)))

\* A response cut to K = 1 is complete, and the corpus line that scores best
\* is not the first matching line of the corpus.
C3_Witness ==
    /\ c_pc = "done"
    /\ line # NoLine /\ WellFormed(1) /\ PatternOf(1) # << >>
    /\ limit_items = Some(1)
    /\ Cardinality(Matching(PatternOf(1))) = 3
    /\ Len(ResultTexts(1)) = 1
    /\ \E i \in Matching(PatternOf(1)) : \E j \in Matching(PatternOf(1)) :
        /\ i < j
        /\ ScoreOf(output_content[i], PatternOf(1)) < ScoreOf(output_content[j], PatternOf(1))
        /\ ResultTexts(1)[1] = println_result(SequenceOf(1), output_content[j])

Count(x, items) == Cardinality({ k \in 1..Len(items) : items[k] = x })

\* The corpus line of a printed result line: the text after "<sequence> ".
ResultLine(text) == SubSeq(text, Len(sequence) + 2, Len(text))

\* C4: with no limit and a non-empty pattern the response holds each corpus
\* line whose field exists and scores above 0 as often as the corpus does,
\* nothing else, and no line comes before a line with a higher score.
C4_UnlimitedExactlyMatches ==
    (Answering /\ PatternOf(line.idx) # << >> /\ limit_items = None) =>
        LET pattern == PatternOf(line.idx)
            matches == Matching(pattern)
        IN  /\ Len(Response) = Cardinality(matches)
            /\ \A l \in { output_content[i] : i \in 1..Len(output_content) } :
                Count(println_result(sequence, l), Response) =
                    Cardinality({ i \in matches : output_content[i] = l })
            /\ \A k \in 1..Len(Response) :
                \E i \in matches :
                    Response[k] = println_result(sequence, output_content[i])
            /\ \A j \in 1..Len(Response) : \A k \in 1..Len(Response) :
                j < k => ScoreOf(ResultLine(Response[j]), pattern)
                            >= ScoreOf(ResultLine(Response[k]), pattern)

\* An unlimited response is complete: of three corpus lines one does not
\* match and was left out, and the two that match were printed, the one with
\* the higher score first although it comes later in the corpus.
C4_Witness ==
    /\ c_pc = "done"
    /\ line # NoLine /\ WellFormed(1) /\ PatternOf(1) # << >>
    /\ limit_items = None
    /\ Len(output_content) = 3
    /\ Cardinality(Matching(PatternOf(1))) = 2
    /\ \E i \in Matching(PatternOf(1)) : \E j \in Matching(PatternOf(1)) :
        /\ i < j
        /\ ScoreOf(output_content[i], PatternOf(1)) < ScoreOf(output_content[j], PatternOf(1))
        /\ ResultTexts(1) = Format(SequenceOf(1), << output_content[j], output_content[i] >>)

\* The result lines the kept line is to be answered with: a function of the
\* line, the corpus, the limit and the extractor alone.
ExpectedResponse ==
    LET pattern == PatternOf(line.idx)
        all     == sort_unstable(score_lines(output_content, extractor, pattern))
        top     == IF limit_items = None THEN all ELSE take(all, limit_items[1])
    IN  Format(SequenceOf(line.idx),
               IF pattern = << >>
               THEN passthrough_lines(output_content, limit_items)
               ELSE lines_of(top))

\* C5: from the end of the drain to the end marker the consumer works on the
\* kept query alone.  Every step, of either thread, taken while the kept
\* well-formed line is parsed, scored, cut or printed takes nothing from the
\* channel and leaves the batch and the kept line as they are; nothing is
\* printed before the response is chosen, the response once chosen does not
\* change, the output grows only by lines of this response, and the consumer
\* goes back to recv only with the end marker.  Whatever is enqueued
\* meanwhile, the matches are all the matches and the response is the one the
\* kept line has against the corpus.
C5_NoPreemption ==
    /\ [][ (c_pc \in { "parse", "select", "print" } /\ WellFormed(line.idx)) =>
            /\ Len(chan') >= Len(chan)
            /\ SubSeq(chan', 1, Len(chan)) = chan
            /\ batch' = batch /\ line' = line
            /\ c_pc = "parse" =>
                /\ stdout' = stdout
                /\ c_pc' \in { "parse", "select", "print" }
            /\ c_pc = "select" =>
                /\ stdout' = stdout /\ sequence' = sequence
                /\ c_pc' \in { "select", "print" }
                /\ c_pc' = "select" => matched_lines' = matched_lines
            /\ c_pc = "print" =>
                /\ sequence' = sequence
                /\ Response' = Response
                /\ \/ stdout' = stdout
                   \/ /\ Len(stdout') = Len(stdout) + 1
                      /\ SubSeq(stdout', 1, Len(stdout)) = stdout
                      /\ stdout'[Len(stdout')].idx = line.idx
                /\ \/ c_pc' = "print"
                   \/ /\ c_pc' = "recv"
                      /\ to_print = << >>
                      /\ stdout'[Len(stdout')].eof ]_vars
    /\ []((c_pc = "select" /\ WellFormed(line.idx)) =>
            matched_lines = score_lines(output_content, extractor, PatternOf(line.idx)))
    /\ [](Answering => Response = ExpectedResponse)

\* A response to a non-empty pattern, of two result lines, is complete while
\* two lines, enqueued since the drain, are waiting in the channel.
C5_Witness ==
    /\ c_pc = "recv"
    /\ line # NoLine
    /\ WellFormed(line.idx)
    /\ PatternOf(line.idx) # << >>
    /\ Len(ResultTexts(line.idx)) >= 2
    /\ EofOf(line.idx) # {}
    /\ Len(chan) = 2
    /\ chan[1].idx > line.idx

\* C6: the last line read is never discarded by coalescing, and once the
\* reader has ended the loop ends with the response to that line, if it is
\* well-formed, printed up to its end marker.
C6_CatchUp ==
    /\ [](stdin_read # << >> => Len(stdin_read) \notin discarded)
    /\ (r_pc = "done") ~>
         (/\ c_pc = "done"
          /\ (stdin_read # << >> /\ WellFormed(Len(stdin_read)))
                => EofOf(Len(stdin_read)) # {})

\* The input closed after three lines, the first two were coalesced away and
\* the third has been answered.
C6_Witness ==
    /\ c_pc = "done"
    /\ stdin_state = "eof"
    /\ Len(stdin_read) = 3
    /\ discarded = { 1, 2 }
    /\ WellFormed(3)
    /\ EofOf(3) # {}

\* C7: when the input closes the reader ends and drops the sender; the loop
\* ends only then, with the channel empty and every kept query answered, run
\* returns SUCCESS, and after the input closed the loop does end.
C7_Termination ==
    /\ [](stdin_state # "open" => r_pc = "done")
    /\ [](c_pc = "done" =>
            /\ stdin_state # "open"
            /\ r_pc = "done"
            /\ chan = << >>
            /\ to_print = << >>
            /\ exit_code = "SUCCESS"
            /\ \A i \in 1..Len(stdin_read) :
                 (i \notin discarded /\ WellFormed(i)) => Cardinality(EofOf(i)) = 1)
    /\ [](exit_code # "none" => c_pc = "done")
    /\ (stdin_state = "eof") ~> (c_pc = "done")

\* The loop has ended after the input closed while a response was being
\* printed: the line read last was answered alone.
C7_Witness ==
    /\ c_pc = "done"
    /\ exit_code = "SUCCESS"
    /\ stdin_state = "eof"
    /\ Len(stdin_read) = 2
    /\ discarded = {}
    /\ Cardinality(EofOf(1)) = 1 /\ Cardinality(EofOf(2)) = 1

\* C8: the reader's send of the line it has just read is enabled in every
\* state, whatever the consumer is doing and however many lines are queued.
C8_SendNeverBlocks ==
    /\ r_pc \in { "read", "send", "done" }
    /\ r_pc = "send" => ENABLED Send

\* The reader has sent a line although a line was queued and the consumer was
\* printing a response, and is about to send the next one.
C8_Witness ==
    /\ r_pc = "send"
    /\ Len(stdin_read) = 3
    /\ Len(chan) = 1
    /\ c_pc = "print"
    /\ to_print # << >>

\* C9: an empty pattern yields the first min(K, |corpus|) corpus lines in
\* corpus order (all of them without a limit), each after the sequence id,
\* and neither builds a Pattern nor calls get_score.
C9_EmptyPatternPassthrough ==
    (Answering /\ PatternOf(line.idx) = << >>) =>
        LET n == IF limit_items = None THEN Len(output_content)
                 ELSE Min(limit_items[1], Len(output_content))
        IN  /\ Response = Format(SequenceOf(line.idx),
                                 [k \in 1..n |-> output_content[k]])
            /\ n_pattern_new = 0
            /\ n_get_score = 0

\* An empty-pattern query against three corpus lines with limit 2 has been
\* answered with two lines.
C9_Witness ==
    /\ c_pc = "done"
    /\ line # NoLine /\ WellFormed(1) /\ PatternOf(1) = << >>
    /\ limit_items = Some(2)
    /\ Len(output_content) = 3
    /\ output_content[1] # output_content[2]
    /\ Len(ResultTexts(1)) = 2
    /\ Cardinality(EofOf(1)) = 1

\* C10 as stated: of two result lines with equal score the one with the
\* greater text comes first.
C10_TieBreakDescending ==
    (Answering /\ PatternOf(line.idx) # << >>) =>
        \A j \in 1..Len(Response) : \A k \in 1..Len(Response) :
            (/\ j < k
             /\ ScoreOf(ResultLine(Response[j]), PatternOf(line.idx))
                  = ScoreOf(ResultLine(Response[k]), PatternOf(line.idx)))
            => ~str_lt(ResultLine(Response[j]), ResultLine(Response[k]))

\* C10, amended: of two result lines with equal score the one with the
\* smaller text (byte-wise) comes first, whatever their order in the corpus.
C10_TieBreakAscending ==
    (Answering /\ PatternOf(line.idx) # << >>) =>
        \A j \in 1..Len(Response) : \A k \in 1..Len(Response) :
            (/\ j < k
             /\ ScoreOf(ResultLine(Response[j]), PatternOf(line.idx))
                  = ScoreOf(ResultLine(Response[k]), PatternOf(line.idx)))
            => ~str_lt(ResultLine(Response[k]), ResultLine(Response[j]))

\* Two corpus lines with equal score and different text were printed in the
\* order opposite to the corpus order.
C10_Witness ==
    /\ c_pc = "done"
    /\ line # NoLine /\ WellFormed(1) /\ PatternOf(1) # << >>
    /\ Len(output_content) = 2
    /\ output_content[1] # output_content[2]
    /\ Matching(PatternOf(1)) = { 1, 2 }
    /\ ScoreOf(output_content[1], PatternOf(1)) = ScoreOf(output_content[2], PatternOf(1))
    /\ ResultTexts(1) = Format(SequenceOf(1), << output_content[2], output_content[1] >>)

\* str::trim: the characters trimming removes (the ones the inputs contain).
is_whitespace(c) == c \in { SPACE, TAB, NL }
AllWhitespace(text) == \A k \in 1..Len(text) : is_whitespace(text[k])

\* C11: a pattern that is not empty but is all whitespace gets the unranked
\* passthrough: the response is the first corpus lines in their order, up to
\* the limit, and no pattern is built and no line is scored.
C11_WhitespacePassthrough ==
    (Answering /\ PatternOf(line.idx) # << >> /\ AllWhitespace(PatternOf(line.idx))) =>
        /\ Response = Format(SequenceOf(line.idx),
                             passthrough_lines(output_content, limit_items))
        /\ n_pattern_new = 0
        /\ n_get_score = 0

\* C12: a kept line that has no space to split at is dropped silently: no
\* output entry ever belongs to it, no failure status is set, the loop ends
\* only when the channel is empty and disconnected, and a well-formed line
\* kept after it has its one end marker.
C12_MalformedDropped ==
    /\ \A i \in Taken \ discarded : ~WellFormed(i) => OutputOf(i) = {}
    /\ exit_code # "FAILURE"
    /\ c_pc = "done" => chan = << >> /\ r_pc = "done"
    /\ \A i \in Taken \ discarded : \A j \in Taken \ discarded :
        (~WellFormed(i) /\ i < j /\ WellFormed(j) /\ Finished(j))
            => Cardinality(EofOf(j)) = 1

\* The line "x" was kept and dropped, then the query that followed it was
\* kept and answered, and the loop ended with the input.
C12_Witness ==
    /\ Len(stdin_read) = 2
    /\ ~WellFormed(1) /\ WellFormed(2)
    /\ discarded = {}
    /\ c_pc = "done"
    /\ OutputOf(1) = {}
    /\ Cardinality(EofOf(2)) = 1
    /\ exit_code = "SUCCESS"

\* C13: a line that read_line cannot decode does not end the session: after
\* the error the reader thread is still reading, and the loop ends only when
\* the input has reached its end.
C13_DecodeErrorNotFatal ==
    /\ stdin_state = "error" => r_pc = "read"
    /\ c_pc = "done" => stdin_state = "eof"

\* C14: when the command exits with a status that is not success, run has
\* written the command's stderr and returned the failure status, and the
\* reader thread and the loop never start: no line is read or queued and
\* nothing is printed.  The command is run at most once, and once before
\* anything of the loop happens.
C14_CollaboratorFailure ==
    /\ command_status = "failure" =>
        /\ exit_code = "FAILURE"
        /\ c_pc = "done"
        /\ r_pc = "unspawned"
        /\ stdin_read = << >> /\ chan = << >> /\ batch = << >>
        /\ stdout = << >> /\ ~help_printed
        /\ Len(stderr) = 1 /\ stderr[1].from = "command"
        /\ stderr[1].text \in CommandStderrs
        /\ n_pattern_new = 0 /\ n_get_score = 0
    /\ n_command_output <= 1
    /\ (r_pc # "unspawned" \/ stdin_read # << >> \/ stdout # << >>) =>
        n_command_output = 1 /\ command_status = "success"

\* The command failed and wrote "e" to its stderr: that text is relayed, the
\* process has ended with the failure status and no thread was spawned.
C14_Witness ==
    /\ command_status = "failure"
    /\ stderr = << [from |-> "command", text |-> << 101 >>] >>
    /\ exit_code = "FAILURE"
    /\ r_pc = "unspawned"
    /\ n_command_output = 1

\* The command line names no command: "--" does not occur, or nothing comes
\* after it.
CommandMissing ==
    \A i \in 1..Len(argv) : argv[i] = DASHDASH => i = Len(argv)

\* The command line names a command and gives an option a value its type
\* rejects, or no value.
OptionMalformed ==
    /\ ~CommandMissing
    /\ \E i \in 1..Len(argv) :
        /\ \A j \in 1..i : argv[j] # DASHDASH
        /\ \/ /\ argv[i] \in { KEYS_LIMIT[1], KEYS_LIMIT[2], KEYS_INDEX[1],
                               KEYS_INDEX[2], KEYS_PARTITIONS[1], KEYS_PARTITIONS[2] }
              /\ usize_from_str(argv[i + 1]) = None
           \/ /\ argv[i] \in { KEYS_DELIMITER[1], KEYS_DELIMITER[2] }
              /\ char_from_str(argv[i + 1]) = None

\* C15: when the command line names no command, or gives an option a
\* malformed value, main ends with the failure status and the error on
\* stderr, and the command is never run and no corpus is captured.
C15_ConfigurationError ==
    (c_pc # "main" /\ (CommandMissing \/ OptionMalformed)) =>
        /\ exit_code = "FAILURE"
        /\ stderr # << >>
        /\ n_command_output = 0
        /\ output_content = << >>
        /\ r_pc = "unspawned"

\* The places of delimiter d in s, and the k-th of them (k from 1).
DelimiterPlaces(s, d) ==
    { k \in 1..Len(s) : SubSeq(s, k, k + Len(encode_utf8(d)) - 1) = encode_utf8(d) }
DelimiterPlace(s, d, k) ==
    CHOOSE p \in DelimiterPlaces(s, d) :
        Cardinality({ q \in DelimiterPlaces(s, d) : q < p }) = k - 1

\* Segment i (from 0) of s cut at its delimiters into at most n segments
\* (n = None: no bound): it starts after the i-th delimiter; the last segment
\* runs to the end of s, every other one to the next delimiter.  None when
\* there are not more than i segments.
Segment(s, d, i, n) ==
    LET total == Cardinality(DelimiterPlaces(s, d)) + 1
        count == IF n = None THEN total ELSE Min(n[1], total)
        first == IF i = 0 THEN 1
                 ELSE DelimiterPlace(s, d, i) + Len(encode_utf8(d))
        last  == IF i = count - 1 THEN Len(s) ELSE DelimiterPlace(s, d, i + 1) - 1
    IN  IF i >= count THEN None ELSE Some(SubSeq(s, first, last))

\* The field of a corpus line under the configured extractor.
FieldOf(l) ==
    CASE extractor.kind = "Through"   -> Some(l)
      [] extractor.kind = "Index"     ->
            Segment(l, extractor.delimiter, extractor.index, None)
      [] extractor.kind = "Partition" ->
            Segment(l, extractor.delimiter, extractor.index, Some(extractor.partitions))

\* C16: what is scored of a corpus line is the whole line, or segment i of
\* the line split at every delimiter, or segment i of the line split into at
\* most N segments; when there is no segment i the field is absent, the line
\* is not scored and is in no response to a non-empty pattern; a line is in
\* such a response exactly when its field exists and scores above 0.
C16_FieldExtraction ==
    \A k \in 1..Len(output_content) :
        LET l == output_content[k]
        IN  /\ extract(extractor, l) = FieldOf(l)
            /\ (extractor.kind = "Partition"
                    /\ (extractor.index >= extractor.partitions \/ extractor.partitions = 0))
                => extract(extractor, l) = None
            /\ (Answering /\ PatternOf(line.idx) # << >>) =>
                /\ Count(println_result(SequenceOf(line.idx), l), Response) >= 1
                    <=> /\ FieldOf(l) # None
                        /\ get_score(FieldOf(l)[1], PatternOf(line.idx)) > 0
                /\ n_get_score = Cardinality({ j \in 1..Len(output_content) :
                                                FieldOf(output_content[j]) # None })

\* The line "b\t\ta" was answered for the pattern "a" with two partitions and
\* index 1: the field is "\ta", the rest of the line unsplit, and the line was
\* printed.
C16_Witness ==
    /\ c_pc = "done"
    /\ output_content = << << 98, TAB, TAB, 97 >> >>
    /\ extractor = PartitionExtractor(1, 2, TAB)
    /\ extract(extractor, output_content[1]) = Some(<< TAB, 97 >>)
    /\ WellFormed(1)
    /\ PatternOf(1) = << 97 >>
    /\ ResultTexts(1) = << println_result(SequenceOf(1), output_content[1]) >>
    /\ n_get_score = 1

\* Two input lines with the same text were both kept and answered.
SameQueryTwice(i, j) ==
    /\ i # j
    /\ Finished(i) /\ Finished(j)
    /\ WellFormed(i) /\ WellFormed(j)
    /\ stdin_read[i] = stdin_read[j]

\* C17: two kept input lines with the same text get the same response, line
\* for line, whichever reordering select_nth_unstable leaves; and once the
\* command's output is captured no step changes the corpus or runs the
\* command again.
C17_Idempotence ==
    /\ [](\A i \in 1..Len(stdin_read) : \A j \in 1..Len(stdin_read) :
            SameQueryTwice(i, j) =>
                [k \in 1..Cardinality(OutputOf(i)) |->
                    SelectSeq(stdout, LAMBDA e : e.idx = i)[k].text]
                = [k \in 1..Cardinality(OutputOf(j)) |->
                    SelectSeq(stdout, LAMBDA e : e.idx = j)[k].text])
    /\ [][c_pc # "main" =>
            /\ output_content' = output_content
            /\ n_command_output' = n_command_output]_vars

\* The query "1 a" was answered twice under the limit 1 against a corpus
\* whose two lines both match with the same score, so that
\* select_nth_unstable had to cut the matches both times.
C17_Witness ==
    /\ c_pc = "done"
    /\ Len(stdin_read) = 2
    /\ SameQueryTwice(1, 2)
    /\ limit_items = Some(1)
    /\ PatternOf(1) # << >>
    /\ Cardinality(Matching(PatternOf(1))) = 2
    /\ \A m \in Matching(PatternOf(1)) :
        ScoreOf(output_content[m], PatternOf(1)) = ScoreOf(output_content[1], PatternOf(1))
    /\ Len(ResultTexts(1)) = 1
    /\ ResultTexts(1) = ResultTexts(2)

\* Input line i was taken in the batch whose last line is j: every line from
\* i up to j - 1 was discarded in a drain and j was kept.
InBatchOf(i, j) ==
    /\ i <= j
    /\ j \in Taken \ discarded
    /\ \A k \in i..(j - 1) : k \in discarded

\* C18: when the last line of a drained batch has no space, no output entry
\* belongs to any line of that batch, then or later, also when earlier lines
\* of the batch are well-formed queries.
C18_MalformedSupersedes ==
    \A j \in 1..Len(stdin_read) : \A i \in 1..j :
        (InBatchOf(i, j) /\ ~WellFormed(j)) => OutputOf(i) = {}

\* The query "1 a" and the line "x" were drained as one batch; the loop has
\* ended and nothing was printed.
C18_Witness ==
    /\ Len(stdin_read) = 2
    /\ WellFormed(1) /\ ~WellFormed(2)
    /\ PatternOf(1) # << >>
    /\ discarded = { 1 }
    /\ Len(batch) = 2
    /\ c_pc = "done"
    /\ stdout = << >>

\* C19: every output entry belongs to an input line that was read and starts
\* with that line's sequence id; an input line has at most one end marker and
\* nothing of its response after it; and the entries are in the order of
\* their input lines.
C19_ResponseOrdering ==
    /\ \A k \in 1..Len(stdout) :
        /\ stdout[k].idx \in 1..Len(stdin_read)
        /\ WellFormed(stdout[k].idx)
        /\ take(stdout[k].text, Len(SequenceOf(stdout[k].idx))) = SequenceOf(stdout[k].idx)
    /\ \A i \in 1..Len(stdin_read) :
        /\ Cardinality(EofOf(i)) <= 1
        /\ \A e \in EofOf(i) : \A k \in OutputOf(i) : k <= e
    /\ \A k \in 1..Len(stdout) : \A m \in k..Len(stdout) :
        stdout[k].idx <= stdout[m].idx

\* Three lines were read; the first and the third were answered, in that
\* order, the second was not; the loop has ended.
C19_Witness ==
    /\ c_pc = "done"
    /\ Len(stdin_read) = 3
    /\ EofOf(1) # {} /\ EofOf(3) # {}
    /\ OutputOf(2) = {}
    /\ stdout[1].idx = 1
    /\ stdout[Len(stdout)].idx = 3
    /\ SequenceOf(1) # SequenceOf(3)

\* C20: a corpus line whose field is absent under the configured extractor is
\* in no response to a non-empty pattern, and is at its corpus position in
\* the response to an empty pattern when that position is within the limit.
C20_PassthroughIgnoresField ==
    \A k \in 1..Len(output_content) :
        (Answering /\ extract(extractor, output_content[k]) = None) =>
            LET printed == println_result(SequenceOf(line.idx), output_content[k])
            IN  IF PatternOf(line.idx) = << >>
                THEN (limit_items = None \/ k <= limit_items[1]) =>
                        /\ k <= Len(Response)
                        /\ Response[k] = printed
                ELSE Count(printed, Response) = 0

\* With the field index 1 the corpus line "a" has no field; the empty pattern
\* under the limit 1 printed it, as the first of two corpus lines.
C20_Witness ==
    /\ c_pc = "done"
    /\ extractor = IndexExtractor(1, TAB)
    /\ output_content = << << 97 >>, << 98, TAB, 97 >> >>
    /\ extract(extractor, output_content[1]) = None
    /\ limit_items = Some(1)
    /\ WellFormed(1) /\ PatternOf(1) = << >>
    /\ ResultTexts(1) = << println_result(SequenceOf(1), << 97 >>) >>

====
